---- MODULE Spec2Model ----
(***************************************************************************)
(* The call session orchestrator of MoonAI's backend (backend/server.js):  *)
(* the in-memory session store `interviews` and the Express handlers       *)
(* /make-call, /process-intro, /process-answer1, /process-answer2 and      *)
(* /process-qna.  Every handler is async: it runs atomically from one      *)
(* await to the next, and handlers of other requests run in between.  One  *)
(* action of the model is one such atomic segment of one handler.          *)
(* The functions transcribeRecording and generateFinalScore of             *)
(* backend/interview.js are modelled beside it, each under a specification *)
(* of its own, in which any caller calls them.                             *)
(***************************************************************************)
EXTENDS Naturals, Integers, Sequences, FiniteSets, TLC

(* ------------------------------ bounds -------------------------------- *)

\* callbacks the telephony provider delivers in one behaviour, in any order
MaxCallbacks == 3

\* callbacks the provider delivers in one behaviour that has /voice callbacks
\* among them
MaxVoiceCallbacks == 2

\* callbacks the provider delivers in one behaviour when it follows the
\* interview script
MaxScriptCallbacks == 5

\* the phone numbers of the candidates a /make-call request can name, in the
\* order of its list
Phones == <<"+15550001", "+15550002">>

\* handler invocations that can be suspended at an await at the same time
Slots == {"h1", "h2"}

\* call sids the telephony provider hands out, in this order
CallSids == <<"CA1", "CA2">>

CallIds == {CallSids[i] : i \in 1..Len(CallSids)}

\* req.body.RecordingUrl / req.body.Digits: present or undefined
Undefined == "undefined"

RecordingUrls == {"rec", Undefined}

DigitValues == {"#", Undefined}

JobRoles == {"Backend Engineer"}

JobDescriptions == {"Build APIs"}

(* -------------------- values the handlers work with ------------------- *)

\* twilio.twiml.VoiceResponse verbs: say, play, record, hangup
Say(text) == [verb |-> "Say", arg |-> text]

Play == [verb |-> "Play", arg |-> "9"]

Record(action, maxLength) ==
    [verb |-> "Record", arg |-> action, maxLength |-> maxLength,
     finishOnKey |-> "#", timeout |-> 5]

Hangup == [verb |-> "Hangup", arg |-> ""]

\* the fixed lines the handlers speak
QnaPrompt == "Thank you for your answers! Do you have any questions for me?"

FollowUp == "Do you have any other questions?"

Goodbye == "Thank you for your time! Goodbye!"

Apology == "Sorry, I encountered an error. Thank you for your time! Goodbye!"

\* the text the speech-to-text provider returns for a recording
Transcript(url) == [of |-> url]

\* the `text` argument the handlers hand to getAiResponse
AskFirst == [text |-> "Ask first technical question", question |-> [of |-> ""]]

AskSecond == [text |-> "Ask second technical question", question |-> [of |-> ""]]

AnswerThis(question) == [text |-> "Answer this question: ", question |-> question]

\* the text the chat-completion provider returns for a request
Completion(text) == [of |-> text.text]

\* getInterviewPrompt(role, jobDescription): the persona message
InterviewPrompt(role, jobDescription) ==
    <<[role |-> "system",
       content |-> [role |-> role, jobDescription |-> jobDescription]]>>

\* conversationHistory = [] when the caller passes no fifth argument
DefaultHistory == <<>>

\* faulty variant: the persona is built without the role
GetAiMessages_NoRole(text, role, jobDescription, conversationHistory) ==
    InterviewPrompt("", jobDescription) \o conversationHistory
    \o <<[role |-> "user", content |-> text]>>

\* the messages getAiResponse sends: the persona, the conversation history
\* it was passed, then { role: "user", content: text }
GetAiMessages(text, role, jobDescription, conversationHistory) ==
    InterviewPrompt(role, jobDescription) \o conversationHistory
    \o <<[role |-> "user", content |-> text]>>

\* a history entry, as pushed by the handlers
UserEntry(content) == [role |-> "user", content |-> content]

AssistantEntry(content) == [role |-> "assistant", content |-> content]

\* the session object /make-call stores under call.sid
NewSession(jobRole, jobDescription, phone) ==
    [jobRole |-> jobRole, jobDescription |-> jobDescription,
     history |-> <<>>, phase |-> "introduction", candidatePhone |-> phone,
     recordingUrl |-> Undefined, answer1Url |-> Undefined,
     answer2Url |-> Undefined]

\* no object has been created for this sid
NoObject == [jobRole |-> "", jobDescription |-> "", history |-> <<>>,
             phase |-> "none", candidatePhone |-> "",
             recordingUrl |-> Undefined, answer1Url |-> Undefined,
             answer2Url |-> Undefined]

\* a handler slot with no request in it
Idle == [pc |-> "idle", route |-> "none", callSid |-> "none",
         RecordingUrl |-> Undefined, Digits |-> Undefined,
         transcription |-> [of |-> ""], twiml |-> <<>>, appended |-> <<>>,
         error |-> "none", status |-> "none", results |-> <<>>,
         messages |-> <<>>,
         candidates |-> [kind |-> "missing", items |-> <<>>]]

\* the /make-call handler before its request arrives; the model follows one
\* /make-call request from its arrival (pc "placing") to its response ("done")
NoMakeCall == [pc |-> "idle", jobRole |-> "", jobDescription |-> "",
               candidates |-> [kind |-> "missing", items |-> <<>>],
               todo |-> <<>>, results |-> <<>>]

\* the values of backend/interview.js

\* invocations of transcribeRecording that can be in flight together
Invocations == {"t1", "t2"}

\* path.join(tempDir, `${callSid}_${Date.now()}.wav`)
TempFilePath(callSid, stamp) == [callSid |-> callSid, stamp |-> stamp]

NoFile == TempFilePath("none", "none")

\* what the function throws
NoError == [kind |-> "none", attempt |-> 0]

\* the rejection of the attempt-th axios call
FetchError(attempt) == [kind |-> "fetch", attempt |-> attempt]

\* fs.mkdirSync throws
MkdirError == [kind |-> "mkdir", attempt |-> 0]

\* `response.data` with `response` still undefined
ResponseUndefined == [kind |-> "TypeError", attempt |-> 0]

\* the write stream emits 'error'
WriteError == [kind |-> "write", attempt |-> 0]

\* openai.audio.transcriptions.create rejects
ProviderError == [kind |-> "provider", attempt |-> 0]

\* fs.readdirSync throws on a directory that does not exist
ReaddirError == [kind |-> "ENOENT", attempt |-> 0]

\* an invocation with its parameters and locals; `attempts`, `delays` and
\* `providerCalls` count the axios calls, the setTimeout waits and the
\* speech-to-text calls it has made
NoTranscription ==
    [pc |-> "idle", callSid |-> "none", retries |-> 0, attempt |-> 0,
     attempts |-> 0, delays |-> 0, response |-> FALSE, tempFilePath |-> NoFile,
     written |-> FALSE, providerCalls |-> 0, error |-> NoError,
     returned |-> [of |-> ""]]

\* a record of empty fields
NoRecord ==
    [technicalScore |-> 0, communicationScore |-> 0, justification |-> "",
     completionStatus |-> ""]

\* response.choices[0].message.content: the text of a record, or text that
\* is no JSON
JsonText(record) == [json |-> TRUE, spells |-> record]

PlainText == [json |-> FALSE, spells |-> NoRecord]

\* generateFinalScore before it is called
NoScoring ==
    [pc |-> "idle", messages |-> <<>>, outcome |-> [rejected |-> FALSE,
                                                    content |-> PlainText],
     returned |-> NoRecord]

(* ------------------------------- state -------------------------------- *)

VARIABLES
    interviews,   \* the keys of the Map `interviews`
    objects,      \* sid -> the session object created for it (handlers keep
                  \* their reference `state` to it after interviews.delete)
    reqs,         \* slot -> the callback handler suspended in it
    lastResp,     \* the handler invocation that has just finished, with what
                  \* it sent, until the client has taken it; else Idle
    makeCall,     \* the /make-call handler: its loop position and results
    placed,       \* number of sids the provider has handed out
    delivered,    \* callbacks delivered so far
    transcriptions, \* invocation -> a call of transcribeRecording in flight
    tempDir,      \* the directory call_recordings: whether it exists, its files
    unlinks,      \* files with an fs.unlink issued and not yet carried out
    scoring       \* the call of generateFinalScore

vars == <<interviews, objects, reqs, lastResp, makeCall, placed, delivered,
          transcriptions, tempDir, unlinks, scoring>>

\* the state of backend/interview.js, which no handler of server.js touches
interviewVars == <<transcriptions, tempDir, unlinks, scoring>>

Init ==
    /\ interviews = {}
    /\ objects = [c \in CallIds |-> NoObject]
    /\ reqs = [r \in Slots |-> Idle]
    /\ lastResp = Idle
    /\ makeCall = NoMakeCall
    /\ placed = 0
    /\ delivered = 0
    /\ transcriptions = [t \in Invocations |-> NoTranscription]
    /\ tempDir = [exists |-> FALSE, files |-> {}]
    /\ unlinks = {}
    /\ scoring = NoScoring

(* ---------------------- POST /make-call (55-98) ------------------------ *)

\* req.body.candidates: missing, not an array, or an array of candidates
CandidateBodies ==
    {[kind |-> "missing", items |-> <<>>], [kind |-> "notArray", items |-> <<>>]}
    \cup {[kind |-> "array", items |-> [i \in 1..n |-> [phone |-> Phones[i]]]] :
             n \in 0..Len(Phones)}

\* faulty variant: the length test is missing, an empty array passes
InvalidCandidates_AcceptsEmpty(body) == body.kind # "array"

\* !candidates || !Array.isArray(candidates) || candidates.length === 0
InvalidCandidates(body) == body.kind # "array" \/ Len(body.items) = 0

\* the response of a finished /make-call request, with the candidates of the
\* request it answers
MakeCallResponse(status, body, results) ==
    [Idle EXCEPT !.pc = "done", !.route = "/make-call", !.status = status,
                 !.candidates = body, !.results = results]

\* the request arrives: validation, then the loop up to its first
\* client.calls.create (a loop over no candidate goes straight to res.json)
MakeCallStart(jobRole, jobDescription, body) ==
    /\ lastResp = Idle
    /\ makeCall.pc = "idle"
    /\ IF InvalidCandidates(body)
       THEN /\ lastResp' = MakeCallResponse("400", body, <<>>)
            /\ makeCall' = [makeCall EXCEPT !.pc = "done"]
       ELSE IF Len(body.items) = 0
       THEN /\ lastResp' = MakeCallResponse("200", body, <<>>)
            /\ makeCall' = [makeCall EXCEPT !.pc = "done"]
       ELSE /\ makeCall' = [pc |-> "placing", jobRole |-> jobRole,
                            jobDescription |-> jobDescription,
                            candidates |-> body,
                            todo |-> body.items, results |-> <<>>]
            /\ UNCHANGED lastResp
    /\ UNCHANGED <<interviews, objects, reqs, placed, delivered>>
    /\ UNCHANGED interviewVars

\* faulty variant: a failed placement is reported as a success
PlacementResult_AlwaysSuccess(ok, sid, phone) ==
    [success |-> TRUE, callSid |-> sid, phone |-> phone]

\* results.push({ success: true, callSid: call.sid, phone }) in the try block,
\* results.push({ success: false, phone, error }) in the catch block
PlacementResult(ok, sid, phone) ==
    IF ok
    THEN [success |-> TRUE, callSid |-> sid, phone |-> phone]
    ELSE [success |-> FALSE, callSid |-> "none", phone |-> phone]

\* the loop body after client.calls.create settles, up to the next await or
\* res.json
MakeCallPlaced(ok) ==
    /\ lastResp = Idle
    /\ makeCall.pc = "placing"
    /\ ok => placed < Len(CallSids)
    /\ LET candidate == Head(makeCall.todo)
           sid == CallSids[placed + 1]
           result == PlacementResult(ok, sid, candidate.phone)
           results == Append(makeCall.results, result)
       IN /\ IF ok
             THEN /\ interviews' = interviews \cup {sid}
                  /\ objects' = [objects EXCEPT ![sid] =
                         NewSession(makeCall.jobRole, makeCall.jobDescription,
                                    candidate.phone)]
                  /\ placed' = placed + 1
             ELSE UNCHANGED <<interviews, objects, placed>>
          /\ IF Len(makeCall.todo) = 1
             THEN /\ lastResp' = MakeCallResponse("200", makeCall.candidates,
                                                  results)
                  /\ makeCall' = [NoMakeCall EXCEPT !.pc = "done"]
             ELSE /\ makeCall' = [makeCall EXCEPT !.todo = Tail(@),
                                                  !.results = results]
                  /\ UNCHANGED lastResp
    /\ UNCHANGED <<reqs, delivered>>
    /\ UNCHANGED interviewVars

(* ------------------- what the callback handlers share ------------------ *)

\* a handler invocation: its request and its locals
NewRequest(route, callSid, recordingUrl, digits) ==
    [Idle EXCEPT !.pc = "transcribe", !.route = route, !.callSid = callSid,
                 !.RecordingUrl = recordingUrl, !.Digits = digits]

\* faulty variant: the lookup failure is answered with a voice response
NotFound_SaysApology(route, callSid, recordingUrl, digits) ==
    [NewRequest(route, callSid, recordingUrl, digits) EXCEPT
        !.pc = "done", !.status = "200",
        !.twiml = <<Say(Apology), Hangup>>]

\* return res.status(404).send('Call not found')
NotFound(route, callSid, recordingUrl, digits) ==
    [NewRequest(route, callSid, recordingUrl, digits) EXCEPT
        !.pc = "done", !.status = "404"]

\* res.type('text/xml').send(twiml.toString())
SendTwiml(req, twiml) ==
    [req EXCEPT !.pc = "done", !.status = "200", !.twiml = twiml]

\* what an external call throws
TranscriptionFailed == "transcription failed"

GenerationFailed == "generation failed"

\* getAiResponse throws outside any try block: the handler's promise rejects
\* and the handler sends nothing
Rejected(req) ==
    [req EXCEPT !.pc = "done", !.status = "unhandled",
                !.error = GenerationFailed]

\* faulty variant: the entry replaces the history (state.history = [entry])
HistoryPush_Overwrites(objs, callSid, entry) ==
    [objs EXCEPT ![callSid].history = <<entry>>]

\* state.history.push(entry), through the handler's reference to the object
HistoryPush(objs, callSid, entry) ==
    [objs EXCEPT ![callSid].history = Append(@, entry)]

\* faulty variant: the push stands after the try block, so a failed transcription
\* pushes an entry too
TryPushTranscription_PushesAnyway(objs, callSid, ok, transcription) ==
    HistoryPush(objs, callSid, UserEntry(transcription))

\* try { transcription = await ...; state.history.push({ role: 'user', ... }) }
\* catch (error) { console.error(...) }   (142-150, 189-195, 234-240)
TryPushTranscription(objs, callSid, ok, transcription) ==
    IF ok THEN HistoryPush(objs, callSid, UserEntry(transcription)) ELSE objs

\* the handler's locals after the try block of the transcription
AfterTranscription(req, ok, transcription) ==
    IF ok
    THEN [req EXCEPT !.transcription = transcription,
                     !.appended = Append(@, UserEntry(transcription))]
    ELSE [req EXCEPT !.error = TranscriptionFailed]

\* the recording can be fetched and transcribed only if there is one
CanTranscribe(req) == req.RecordingUrl # Undefined

\* a new callback can be delivered into slot r (the first idle slot)
CanDeliver(r) ==
    /\ lastResp = Idle
    /\ reqs[r].pc = "idle"
    /\ r = CHOOSE q \in Slots : reqs[q].pc = "idle"

(* -------------------- POST /process-intro (128-172) -------------------- *)

\* state.recordingUrl = recordingUrl; state.phase = 'question1'
IntroAdvance(objs, callSid, recordingUrl) ==
    [objs EXCEPT ![callSid].recordingUrl = recordingUrl,
                 ![callSid].phase = "question1"]

\* say, play, record with action /process-answer1
IntroTwiml(aiResponse) ==
    <<Say(aiResponse), Play, Record("/process-answer1", 120)>>

\* lines 129-143: lookup, phase change, up to await downloadAudio
ProcessIntroStart(r, callSid, recordingUrl) ==
    /\ CanDeliver(r)
    /\ delivered' = delivered + 1
    /\ IF callSid \notin interviews
       THEN /\ lastResp' = NotFound("/process-intro", callSid, recordingUrl,
                                    Undefined)
            /\ UNCHANGED <<objects, reqs>>
       ELSE /\ objects' = IntroAdvance(objects, callSid, recordingUrl)
            /\ reqs' = [reqs EXCEPT ![r] =
                  NewRequest("/process-intro", callSid, recordingUrl, Undefined)]
            /\ UNCHANGED lastResp
    /\ UNCHANGED <<interviews, makeCall, placed>>
    /\ UNCHANGED interviewVars

\* lines 143-155: downloadAudio, convertAudio and transcribeAudio return
\* (ok) or one of them throws; then up to await getAiResponse
ProcessIntroTranscribed(r, ok) ==
    /\ lastResp = Idle
    /\ reqs[r].pc = "transcribe"
    /\ reqs[r].route = "/process-intro"
    /\ ok => CanTranscribe(reqs[r])
    /\ LET req == reqs[r]
           transcription == Transcript(req.RecordingUrl)
       IN /\ objects' = TryPushTranscription(objects, req.callSid, ok,
                                             transcription)
          /\ reqs' = [reqs EXCEPT ![r] =
                [AfterTranscription(req, ok, transcription) EXCEPT
                    !.pc = "generate",
                    !.messages = GetAiMessages(AskFirst,
                        objects[req.callSid].jobRole,
                        objects[req.callSid].jobDescription,
                        DefaultHistory)]]
    /\ UNCHANGED <<interviews, lastResp, makeCall, placed, delivered>>
    /\ UNCHANGED interviewVars

\* lines 155-171: getAiResponse returns (ok) or throws
ProcessIntroGenerated(r, ok) ==
    /\ lastResp = Idle
    /\ reqs[r].pc = "generate"
    /\ reqs[r].route = "/process-intro"
    /\ LET req == reqs[r]
           aiResponse == Completion(AskFirst)
       IN IF ok
          THEN /\ objects' = HistoryPush(objects, req.callSid,
                                         AssistantEntry(aiResponse))
               /\ lastResp' = SendTwiml(
                     [req EXCEPT !.appended = Append(@, AssistantEntry(aiResponse))],
                     IntroTwiml(aiResponse))
          ELSE /\ lastResp' = Rejected(req)
               /\ UNCHANGED objects
    /\ reqs' = [reqs EXCEPT ![r] = Idle]
    /\ UNCHANGED <<interviews, makeCall, placed, delivered>>
    /\ UNCHANGED interviewVars

(* ------------------- POST /process-answer1 (175-217) ------------------- *)

\* state.answer1Url = recordingUrl; state.phase = 'question2'
Answer1Advance(objs, callSid, recordingUrl) ==
    [objs EXCEPT ![callSid].answer1Url = recordingUrl,
                 ![callSid].phase = "question2"]

\* say, play, record with action /process-answer2
Answer1Twiml(aiResponse) ==
    <<Say(aiResponse), Play, Record("/process-answer2", 120)>>

\* lines 176-190: lookup, phase change, up to await transcribeAudio
ProcessAnswer1Start(r, callSid, recordingUrl) ==
    /\ CanDeliver(r)
    /\ delivered' = delivered + 1
    /\ IF callSid \notin interviews
       THEN /\ lastResp' = NotFound("/process-answer1", callSid, recordingUrl,
                                    Undefined)
            /\ UNCHANGED <<objects, reqs>>
       ELSE /\ objects' = Answer1Advance(objects, callSid, recordingUrl)
            /\ reqs' = [reqs EXCEPT ![r] =
                  NewRequest("/process-answer1", callSid, recordingUrl, Undefined)]
            /\ UNCHANGED lastResp
    /\ UNCHANGED <<interviews, makeCall, placed>>
    /\ UNCHANGED interviewVars

\* lines 190-200: transcribeAudio returns (ok) or throws; then up to await
\* getAiResponse
ProcessAnswer1Transcribed(r, ok) ==
    /\ lastResp = Idle
    /\ reqs[r].pc = "transcribe"
    /\ reqs[r].route = "/process-answer1"
    /\ ok => CanTranscribe(reqs[r])
    /\ LET req == reqs[r]
           transcription == Transcript(req.RecordingUrl)
       IN /\ objects' = TryPushTranscription(objects, req.callSid, ok,
                                             transcription)
          /\ reqs' = [reqs EXCEPT ![r] =
                [AfterTranscription(req, ok, transcription) EXCEPT
                    !.pc = "generate",
                    !.messages = GetAiMessages(AskSecond,
                        objects[req.callSid].jobRole,
                        objects[req.callSid].jobDescription,
                        DefaultHistory)]]
    /\ UNCHANGED <<interviews, lastResp, makeCall, placed, delivered>>
    /\ UNCHANGED interviewVars

\* lines 200-216: getAiResponse returns (ok) or throws
ProcessAnswer1Generated(r, ok) ==
    /\ lastResp = Idle
    /\ reqs[r].pc = "generate"
    /\ reqs[r].route = "/process-answer1"
    /\ LET req == reqs[r]
           aiResponse == Completion(AskSecond)
       IN IF ok
          THEN /\ objects' = HistoryPush(objects, req.callSid,
                                         AssistantEntry(aiResponse))
               /\ lastResp' = SendTwiml(
                     [req EXCEPT !.appended = Append(@, AssistantEntry(aiResponse))],
                     Answer1Twiml(aiResponse))
          ELSE /\ lastResp' = Rejected(req)
               /\ UNCHANGED objects
    /\ reqs' = [reqs EXCEPT ![r] = Idle]
    /\ UNCHANGED <<interviews, makeCall, placed, delivered>>
    /\ UNCHANGED interviewVars

(* ------------------- POST /process-answer2 (220-261) ------------------- *)

\* faulty variant: the phase is not set
Answer2Advance_KeepsPhase(objs, callSid, recordingUrl) ==
    [objs EXCEPT ![callSid].answer2Url = recordingUrl]

\* state.answer2Url = recordingUrl; state.phase = 'qna'
Answer2Advance(objs, callSid, recordingUrl) ==
    [objs EXCEPT ![callSid].answer2Url = recordingUrl,
                 ![callSid].phase = "qna"]

\* say the invitation, play, record with action /process-qna
Answer2Twiml == <<Say(QnaPrompt), Play, Record("/process-qna", 60)>>

\* lines 221-235: lookup, phase change, up to await transcribeAudio
ProcessAnswer2Start(r, callSid, recordingUrl) ==
    /\ CanDeliver(r)
    /\ delivered' = delivered + 1
    /\ IF callSid \notin interviews
       THEN /\ lastResp' = NotFound("/process-answer2", callSid, recordingUrl,
                                    Undefined)
            /\ UNCHANGED <<objects, reqs>>
       ELSE /\ objects' = Answer2Advance(objects, callSid, recordingUrl)
            /\ reqs' = [reqs EXCEPT ![r] =
                  NewRequest("/process-answer2", callSid, recordingUrl, Undefined)]
            /\ UNCHANGED lastResp
    /\ UNCHANGED <<interviews, makeCall, placed>>
    /\ UNCHANGED interviewVars

\* lines 235-260: transcribeAudio returns (ok) or throws; the invitation is
\* sent either way
ProcessAnswer2Transcribed(r, ok) ==
    /\ lastResp = Idle
    /\ reqs[r].pc = "transcribe"
    /\ reqs[r].route = "/process-answer2"
    /\ ok => CanTranscribe(reqs[r])
    /\ LET req == reqs[r]
           transcription == Transcript(req.RecordingUrl)
       IN /\ objects' = TryPushTranscription(objects, req.callSid, ok,
                                             transcription)
          /\ lastResp' = SendTwiml(AfterTranscription(req, ok, transcription),
                                   Answer2Twiml)
    /\ reqs' = [reqs EXCEPT ![r] = Idle]
    /\ UNCHANGED <<interviews, makeCall, placed, delivered>>
    /\ UNCHANGED interviewVars

(* --------------------- POST /process-qna (264-323) --------------------- *)

\* digits === '#' || !recordingUrl
EndSignal(recordingUrl, digits) == digits = "#" \/ recordingUrl = Undefined

\* say the closing remark, hangup
ClosingTwiml == <<Say(Goodbye), Hangup>>

\* faulty variant: the catch block does not hang up
ApologyTwiml_NoHangup == <<Say(Apology)>>

\* the catch block: say the apology, hangup (nothing was added before it)
ApologyTwiml == <<Say(Apology), Hangup>>

\* faulty variant: the record directive names the previous handler
QnaTwiml_WrongAction(aiResponse) ==
    <<Say(aiResponse), Play, Say(FollowUp), Play, Record("/process-answer2", 60)>>

\* say the answer, play, say the follow-up, play, record with action
\* /process-qna
QnaTwiml(aiResponse) ==
    <<Say(aiResponse), Play, Say(FollowUp), Play, Record("/process-qna", 60)>>

\* faulty variant: the session is not deleted
StoreDelete_Forgotten(keys, callSid) == keys

\* faulty variant: deleting a sid that is not in the store puts it back
StoreDelete_Toggles(keys, callSid) ==
    IF callSid \in keys THEN keys \ {callSid} ELSE keys \cup {callSid}

\* faulty variant: the deletion removes the other sessions and keeps this one
StoreDelete_Others(keys, callSid) == keys \cap {callSid}

\* faulty variant: the deletion empties the store (interviews.clear())
StoreDelete_ClearsAll(keys, callSid) == {}

\* interviews.delete(callSid)
StoreDelete(keys, callSid) == keys \ {callSid}

\* lines 265-287: lookup, the end branch, else up to await transcribeAudio
ProcessQnaStart(r, callSid, recordingUrl, digits) ==
    /\ CanDeliver(r)
    /\ delivered' = delivered + 1
    /\ IF callSid \notin interviews
       THEN /\ lastResp' = NotFound("/process-qna", callSid, recordingUrl, digits)
            /\ UNCHANGED <<interviews, reqs>>
       ELSE IF EndSignal(recordingUrl, digits)
       THEN /\ interviews' = StoreDelete(interviews, callSid)
            /\ lastResp' = SendTwiml(
                  NewRequest("/process-qna", callSid, recordingUrl, digits),
                  ClosingTwiml)
            /\ UNCHANGED reqs
       ELSE /\ reqs' = [reqs EXCEPT ![r] =
                  NewRequest("/process-qna", callSid, recordingUrl, digits)]
            /\ UNCHANGED <<interviews, lastResp>>
    /\ UNCHANGED <<objects, makeCall, placed>>
    /\ UNCHANGED interviewVars

\* lines 287-292 and 315-322: transcribeAudio returns (ok), then up to await
\* getAiResponse; or it throws into the catch block
ProcessQnaTranscribed(r, ok) ==
    /\ lastResp = Idle
    /\ reqs[r].pc = "transcribe"
    /\ reqs[r].route = "/process-qna"
    /\ ok => CanTranscribe(reqs[r])
    /\ LET req == reqs[r]
           question == Transcript(req.RecordingUrl)
       IN IF ok
          THEN /\ objects' = HistoryPush(objects, req.callSid, UserEntry(question))
               /\ reqs' = [reqs EXCEPT ![r].pc = "generate",
                              ![r].transcription = question,
                              ![r].appended = Append(@, UserEntry(question)),
                              ![r].messages = GetAiMessages(
                                  AnswerThis(question),
                                  objects[req.callSid].jobRole,
                                  objects[req.callSid].jobDescription,
                                  DefaultHistory)]
               /\ UNCHANGED <<interviews, lastResp>>
          ELSE /\ interviews' = StoreDelete(interviews, req.callSid)
               /\ lastResp' = SendTwiml(
                     [req EXCEPT !.error = TranscriptionFailed], ApologyTwiml)
               /\ reqs' = [reqs EXCEPT ![r] = Idle]
               /\ UNCHANGED objects
    /\ UNCHANGED <<makeCall, placed, delivered>>
    /\ UNCHANGED interviewVars

\* lines 292-322: getAiResponse returns (ok) or throws into the catch block
ProcessQnaGenerated(r, ok) ==
    /\ lastResp = Idle
    /\ reqs[r].pc = "generate"
    /\ reqs[r].route = "/process-qna"
    /\ LET req == reqs[r]
           aiResponse == Completion(AnswerThis(req.transcription))
       IN IF ok
          THEN /\ objects' = HistoryPush(objects, req.callSid,
                                         AssistantEntry(aiResponse))
               /\ lastResp' = SendTwiml(
                     [req EXCEPT !.appended = Append(@, AssistantEntry(aiResponse))],
                     QnaTwiml(aiResponse))
               /\ UNCHANGED interviews
          ELSE /\ interviews' = StoreDelete(interviews, req.callSid)
               /\ lastResp' = SendTwiml(
                     [req EXCEPT !.error = GenerationFailed], ApologyTwiml)
               /\ UNCHANGED objects
    /\ reqs' = [reqs EXCEPT ![r] = Idle]
    /\ UNCHANGED <<makeCall, placed, delivered>>
    /\ UNCHANGED interviewVars

(* ------------------------- POST /voice (101-125) ----------------------- *)

\* `Hello, this is an automated interview for the ${jobRole} position. ...`
Greeting(jobRole) ==
    [text |-> "Hello, this is an automated interview for the position",
     jobRole |-> jobRole]

\* faulty variant: the greeting is not followed by a record directive
VoiceTwiml_NoRecord(jobRole) == <<Say(Greeting(jobRole)), Play>>

\* twiml.say(greeting); twiml.play({ digits: '9' }); twiml.record({ ... })
VoiceTwiml(jobRole) ==
    <<Say(Greeting(jobRole)), Play, Record("/process-intro", 60)>>

\* the whole handler: it looks up no session and awaits nothing
Voice(callSid, jobRole) ==
    /\ lastResp = Idle
    /\ delivered' = delivered + 1
    /\ lastResp' = SendTwiml(NewRequest("/voice", callSid, Undefined, Undefined),
                             VoiceTwiml(jobRole))
    /\ UNCHANGED <<interviews, objects, reqs, makeCall, placed>>
    /\ UNCHANGED interviewVars

(* ------------------------------ the client ---------------------------- *)

\* the client takes the response (or, for a rejected handler, gives up)
TakeResponse ==
    /\ lastResp # Idle
    /\ lastResp' = Idle
    /\ UNCHANGED <<interviews, objects, reqs, makeCall, placed, delivered>>
    /\ UNCHANGED interviewVars

(* --------------------------- specification ----------------------------- *)

\* the callbacks the provider can deliver for the recordings it made
IntroUrls == RecordingUrls \ {Undefined}

\* the provider delivers any callback for any call sid at any time
Next ==
    \/ \E jobRole \in JobRoles, jobDescription \in JobDescriptions,
          body \in CandidateBodies : MakeCallStart(jobRole, jobDescription, body)
    \/ \E ok \in BOOLEAN : MakeCallPlaced(ok)
    \/ \E r \in Slots, c \in CallIds, url \in IntroUrls :
          delivered < MaxCallbacks /\ ProcessIntroStart(r, c, url)
    \/ \E r \in Slots, ok \in BOOLEAN : ProcessIntroTranscribed(r, ok)
    \/ \E r \in Slots, ok \in BOOLEAN : ProcessIntroGenerated(r, ok)
    \/ \E r \in Slots, c \in CallIds, url \in IntroUrls :
          delivered < MaxCallbacks /\ ProcessAnswer1Start(r, c, url)
    \/ \E r \in Slots, ok \in BOOLEAN : ProcessAnswer1Transcribed(r, ok)
    \/ \E r \in Slots, ok \in BOOLEAN : ProcessAnswer1Generated(r, ok)
    \/ \E r \in Slots, c \in CallIds, url \in IntroUrls :
          delivered < MaxCallbacks /\ ProcessAnswer2Start(r, c, url)
    \/ \E r \in Slots, ok \in BOOLEAN : ProcessAnswer2Transcribed(r, ok)
    \/ \E r \in Slots, c \in CallIds, url \in RecordingUrls,
          digits \in DigitValues :
          delivered < MaxCallbacks /\ ProcessQnaStart(r, c, url, digits)
    \/ \E r \in Slots, ok \in BOOLEAN : ProcessQnaTranscribed(r, ok)
    \/ \E r \in Slots, ok \in BOOLEAN : ProcessQnaGenerated(r, ok)
    \/ TakeResponse

Spec == Init /\ [][Next]_vars

\* the provider has the call of sid c at the point of the script that the
\* handler of a session in this phase serves, and waits for no response
Scripted(c, phase) ==
    /\ c \in interviews
    /\ objects[c].phase = phase
    /\ \A r \in Slots : reqs[r].callSid # c

\* the end-to-end scenario: the provider follows the script (for each call
\* one callback at a time, the one the last record directive named), and
\* every transcription and every generation returns
NextScenario ==
    \/ \E jobRole \in JobRoles, jobDescription \in JobDescriptions,
          body \in CandidateBodies : MakeCallStart(jobRole, jobDescription, body)
    \/ \E ok \in BOOLEAN : MakeCallPlaced(ok)
    \/ \E r \in Slots, c \in CallIds, url \in IntroUrls :
          /\ delivered < MaxScriptCallbacks
          /\ Scripted(c, "introduction")
          /\ ProcessIntroStart(r, c, url)
    \/ \E r \in Slots : ProcessIntroTranscribed(r, TRUE)
    \/ \E r \in Slots : ProcessIntroGenerated(r, TRUE)
    \/ \E r \in Slots, c \in CallIds, url \in IntroUrls :
          /\ delivered < MaxScriptCallbacks
          /\ Scripted(c, "question1")
          /\ ProcessAnswer1Start(r, c, url)
    \/ \E r \in Slots : ProcessAnswer1Transcribed(r, TRUE)
    \/ \E r \in Slots : ProcessAnswer1Generated(r, TRUE)
    \/ \E r \in Slots, c \in CallIds, url \in IntroUrls :
          /\ delivered < MaxScriptCallbacks
          /\ Scripted(c, "question2")
          /\ ProcessAnswer2Start(r, c, url)
    \/ \E r \in Slots : ProcessAnswer2Transcribed(r, TRUE)
    \/ \E r \in Slots, c \in CallIds, url \in RecordingUrls,
          digits \in DigitValues :
          /\ delivered < MaxScriptCallbacks
          /\ Scripted(c, "qna")
          /\ ProcessQnaStart(r, c, url, digits)
    \/ \E r \in Slots : ProcessQnaTranscribed(r, TRUE)
    \/ \E r \in Slots : ProcessQnaGenerated(r, TRUE)
    \/ TakeResponse

SpecScenario == Init /\ [][NextScenario]_vars

\* the provider delivers any callback, /voice included, for any call sid at
\* any time
NextVoice ==
    \/ \E jobRole \in JobRoles, jobDescription \in JobDescriptions,
          body \in CandidateBodies : MakeCallStart(jobRole, jobDescription, body)
    \/ \E ok \in BOOLEAN : MakeCallPlaced(ok)
    \/ \E r \in Slots, c \in CallIds, url \in IntroUrls :
          delivered < MaxVoiceCallbacks /\ ProcessIntroStart(r, c, url)
    \/ \E r \in Slots, ok \in BOOLEAN : ProcessIntroTranscribed(r, ok)
    \/ \E r \in Slots, ok \in BOOLEAN : ProcessIntroGenerated(r, ok)
    \/ \E r \in Slots, c \in CallIds, url \in IntroUrls :
          delivered < MaxVoiceCallbacks /\ ProcessAnswer1Start(r, c, url)
    \/ \E r \in Slots, ok \in BOOLEAN : ProcessAnswer1Transcribed(r, ok)
    \/ \E r \in Slots, ok \in BOOLEAN : ProcessAnswer1Generated(r, ok)
    \/ \E r \in Slots, c \in CallIds, url \in IntroUrls :
          delivered < MaxVoiceCallbacks /\ ProcessAnswer2Start(r, c, url)
    \/ \E r \in Slots, ok \in BOOLEAN : ProcessAnswer2Transcribed(r, ok)
    \/ \E r \in Slots, c \in CallIds, url \in RecordingUrls,
          digits \in DigitValues :
          delivered < MaxVoiceCallbacks /\ ProcessQnaStart(r, c, url, digits)
    \/ \E r \in Slots, ok \in BOOLEAN : ProcessQnaTranscribed(r, ok)
    \/ \E r \in Slots, ok \in BOOLEAN : ProcessQnaGenerated(r, ok)
    \/ \E c \in CallIds, jobRole \in JobRoles :
          delivered < MaxVoiceCallbacks /\ Voice(c, jobRole)
    \/ TakeResponse

SpecVoice == Init /\ [][NextVoice]_vars

(* ------------- transcribeRecording (backend/interview.js 15-74) -------- *)

\* the largest value of the parameter `retries` a caller passes
MaxRetries == 2

\* values of Date.now() in the name of a temporary file
Stamps == {"ms1", "ms2"}

\* for (let attempt = 1; attempt <= retries; attempt++)
LoopRuns(attempt, retries) == attempt <= retries

\* faulty variant: the last failure is not rethrown, the loop waits and runs out
LastAttempt_Never(attempt, retries) == FALSE

\* if (attempt === retries) throw error
LastAttempt(attempt, retries) == attempt = retries

\* faulty variant: the sweep removes nothing
SweepTargets_None(files, callSid) == {}

\* files.forEach(file => { if (file.includes(callSid)) fs.unlink(...) })
SweepTargets(files, callSid) == {f \in files : f.callSid = callSid}

\* the unlinks the catch block issues
Swept(dir, callSid) ==
    IF dir.exists THEN SweepTargets(dir.files, callSid) ELSE {}

\* faulty variant: the catch block throws an error of its own
Rethrown_CleanupError(dir, error) == ReaddirError

\* what the catch block throws: `error`, unless fs.readdirSync(tempDir) threw
Rethrown(dir, error) == IF dir.exists THEN error ELSE ReaddirError

\* catch (error) { ...; throw error }
Caught(inv, dir, error) ==
    [inv EXCEPT !.pc = "thrown", !.error = Rethrown(dir, error)]

\* the loop from its test to the next await, or past its end to
\* `response.data.pipe(...)` with no response
EnterLoop(inv, dir, attempt) ==
    IF LoopRuns(attempt, inv.retries)
    THEN [inv EXCEPT !.pc = "download", !.attempt = attempt,
                     !.attempts = @ + 1]
    ELSE Caught([inv EXCEPT !.attempt = attempt], dir, ResponseUndefined)

\* a step of invocation t that ends in `next`, having issued the unlinks of
\* the catch block if it threw
Settle(t, next, dir) ==
    /\ transcriptions' = [transcriptions EXCEPT ![t] = next]
    /\ tempDir' = dir
    /\ unlinks' = IF next.pc = "thrown"
                  THEN unlinks \cup Swept(dir, next.callSid)
                  ELSE unlinks

\* the call, up to the first axios call (15-27)
TranscribeRecording(t, callSid, retries, mkdirOk) ==
    /\ transcriptions[t].pc = "idle"
    /\ t = CHOOSE u \in Invocations : transcriptions[u].pc = "idle"
    /\ LET inv == [NoTranscription EXCEPT !.callSid = callSid,
                                          !.retries = retries]
           dir == IF mkdirOk THEN [tempDir EXCEPT !.exists = TRUE] ELSE tempDir
       IN IF ~tempDir.exists /\ ~mkdirOk
          THEN Settle(t, Caught(inv, dir, MkdirError), dir)
          ELSE Settle(t, EnterLoop(inv, dir, 1), dir)
    /\ UNCHANGED <<interviews, objects, reqs, lastResp, makeCall, placed,
                   delivered, scoring>>

\* the axios call settles: break and start the write, or rethrow, or wait
\* (37-47)
DownloadSettled(t, ok, stamp) ==
    /\ transcriptions[t].pc = "download"
    /\ LET inv == transcriptions[t]
       IN IF ok
          THEN Settle(t, [inv EXCEPT
                              !.pc = "write", !.response = TRUE,
                              !.tempFilePath = TempFilePath(inv.callSid, stamp),
                              !.written = TRUE],
                      tempDir)
          ELSE IF LastAttempt(inv.attempt, inv.retries)
          THEN Settle(t, Caught(inv, tempDir, FetchError(inv.attempt)), tempDir)
          ELSE Settle(t, [inv EXCEPT !.pc = "delay", !.delays = @ + 1], tempDir)
    /\ UNCHANGED <<interviews, objects, reqs, lastResp, makeCall, placed,
                   delivered, scoring>>

\* the setTimeout fires: attempt++ and the loop test (40, 24)
DelayElapsed(t) ==
    /\ transcriptions[t].pc = "delay"
    /\ Settle(t, EnterLoop(transcriptions[t], tempDir,
                           transcriptions[t].attempt + 1), tempDir)
    /\ UNCHANGED <<interviews, objects, reqs, lastResp, makeCall, placed,
                   delivered, scoring>>

\* the write stream finishes, and the speech-to-text call is made; or it
\* emits 'error', with the file created or not (46-53)
WriteSettled(t, ok, created) ==
    /\ transcriptions[t].pc = "write"
    /\ ok => created
    /\ LET inv == transcriptions[t]
           dir == IF created
                  THEN [tempDir EXCEPT !.files = @ \cup {inv.tempFilePath}]
                  ELSE tempDir
       IN IF ok
          THEN Settle(t, [inv EXCEPT !.pc = "transcribe",
                                     !.providerCalls = @ + 1], dir)
          ELSE Settle(t, Caught(inv, dir, WriteError), dir)
    /\ UNCHANGED <<interviews, objects, reqs, lastResp, makeCall, placed,
                   delivered, scoring>>

\* the speech-to-text call settles: unlink and return, or the catch block
\* (53-72)
TranscriptionSettled(t, ok) ==
    /\ transcriptions[t].pc = "transcribe"
    /\ LET inv == transcriptions[t]
       IN IF ok
          THEN /\ transcriptions' = [transcriptions EXCEPT ![t] =
                      [inv EXCEPT !.pc = "returned",
                                  !.returned = [of |-> inv.callSid]]]
               /\ unlinks' = unlinks \cup {inv.tempFilePath}
               /\ UNCHANGED tempDir
          ELSE Settle(t, Caught(inv, tempDir, ProviderError), tempDir)
    /\ UNCHANGED <<interviews, objects, reqs, lastResp, makeCall, placed,
                   delivered, scoring>>

\* an fs.unlink issued earlier is carried out (its callback ignores the
\* outcome)
Unlink(f) ==
    /\ f \in unlinks
    /\ unlinks' = unlinks \ {f}
    /\ tempDir' = [tempDir EXCEPT !.files = @ \ {f}]
    /\ UNCHANGED <<interviews, objects, reqs, lastResp, makeCall, placed,
                   delivered, scoring, transcriptions>>

NextTranscribe ==
    \/ \E t \in Invocations, c \in CallIds, retries \in 0..MaxRetries,
          mkdirOk \in BOOLEAN :
          TranscribeRecording(t, c, retries, mkdirOk)
    \/ \E t \in Invocations, ok \in BOOLEAN, stamp \in Stamps :
          DownloadSettled(t, ok, stamp)
    \/ \E t \in Invocations : DelayElapsed(t)
    \/ \E t \in Invocations, ok \in BOOLEAN, created \in BOOLEAN :
          WriteSettled(t, ok, created)
    \/ \E t \in Invocations, ok \in BOOLEAN : TranscriptionSettled(t, ok)
    \/ \E f \in unlinks : Unlink(f)

\* transcribeRecording called by any caller, at any time
SpecTranscribe == Init /\ [][NextTranscribe]_vars

(* ------------- generateFinalScore (backend/interview.js 145-187) ------- *)

\* the longest conversationHistory a caller passes
MaxScoredHistory == 3

\* the entries a conversation history is made of
HistoryEntries ==
    {UserEntry(Transcript("rec")), AssistantEntry(Completion(AskFirst)),
     AssistantEntry(Completion(AskSecond))}

RECURSIVE HistoriesUpTo(_)
HistoriesUpTo(n) ==
    IF n = 0 THEN {<<>>}
    ELSE HistoriesUpTo(n - 1) \cup
         {Append(h, e) : h \in {g \in HistoriesUpTo(n - 1) : Len(g) = n - 1},
                         e \in HistoryEntries}

\* [system prompt with role and jobDescription, ...conversationHistory]
ScoringMessages(conversationHistory, role, jobDescription) ==
    <<[role |-> "system",
       content |-> [role |-> role, jobDescription |-> jobDescription]]>>
    \o [i \in 1..Len(conversationHistory) |->
           [role |-> conversationHistory[i].role,
            content |-> conversationHistory[i].content]]

\* the records a reply can spell
ScoreRecords ==
    {[technicalScore |-> 7, communicationScore |-> 8,
      justification |-> "solid answers", completionStatus |-> "complete"],
     [technicalScore |-> 0, communicationScore |-> 0,
      justification |-> "no answers", completionStatus |-> "abrupt"]}

ReplyContents == {JsonText(record) : record \in ScoreRecords} \cup {PlainText}

\* how the provider call settles: it rejects, or it resolves with a reply
ProviderOutcomes ==
    {[rejected |-> TRUE, content |-> PlainText]}
    \cup {[rejected |-> FALSE, content |-> x] : x \in ReplyContents}

\* JSON.parse(jsonString): the value, or a SyntaxError
JsonParse(jsonString) ==
    IF jsonString.json
    THEN [threw |-> FALSE, value |-> jsonString.spells]
    ELSE [threw |-> TRUE, value |-> NoRecord]

\* the record of the catch block
ScoringFailed ==
    [technicalScore |-> 0, communicationScore |-> 0,
     justification |-> "Scoring failed due to system error",
     completionStatus |-> "error"]

\* faulty variant: the catch block rethrows, as that of getAiResponse does
ScoreCaught_Rethrows(call) == [call EXCEPT !.pc = "thrown"]

\* catch (error) { console.error(...); return { technicalScore: 0, ... } }
ScoreCaught(call) == [call EXCEPT !.pc = "returned", !.returned = ScoringFailed]

\* the call, up to the chat-completion request (145-168)
GenerateFinalScore(conversationHistory, role, jobDescription) ==
    /\ scoring.pc = "idle"
    /\ scoring' = [scoring EXCEPT
           !.pc = "completion",
           !.messages = ScoringMessages(conversationHistory, role,
                                        jobDescription)]
    /\ UNCHANGED <<interviews, objects, reqs, lastResp, makeCall, placed,
                   delivered, transcriptions, tempDir, unlinks>>

\* the chat-completion request settles (168-185)
ScoreSettled(outcome) ==
    /\ scoring.pc = "completion"
    /\ LET call == [scoring EXCEPT !.outcome = outcome]
           parsed == JsonParse(outcome.content)
       IN scoring' = IF outcome.rejected \/ parsed.threw
                     THEN ScoreCaught(call)
                     ELSE [call EXCEPT !.pc = "returned",
                                       !.returned = parsed.value]
    /\ UNCHANGED <<interviews, objects, reqs, lastResp, makeCall, placed,
                   delivered, transcriptions, tempDir, unlinks>>

NextScore ==
    \/ \E h \in HistoriesUpTo(MaxScoredHistory), role \in JobRoles,
          jobDescription \in JobDescriptions :
          GenerateFinalScore(h, role, jobDescription)
    \/ \E outcome \in ProviderOutcomes : ScoreSettled(outcome)

\* generateFinalScore called once, with any history
SpecScore == Init /\ [][NextScore]_vars

(* ------------------------- reading the state --------------------------- *)

CallbackRoutes ==
    {"/process-intro", "/process-answer1", "/process-answer2", "/process-qna"}

\* the phase of the session the store holds for a sid: none before the
\* session is created, ended once it has been deleted
SessionPhase(c) ==
    IF c \in interviews THEN objects[c].phase
    ELSE IF objects[c].phase = "none" THEN "none" ELSE "ended"

\* the position of a phase in introduction -> ... -> ended
Rank(phase) ==
    CASE phase = "none"         -> 0
      [] phase = "introduction" -> 1
      [] phase = "question1"    -> 2
      [] phase = "question2"    -> 3
      [] phase = "qna"          -> 4
      [] phase = "ended"        -> 5

IsPrefix(s, t) == Len(s) <= Len(t) /\ \A i \in 1..Len(s) : s[i] = t[i]

Verbs(twiml) == {twiml[i].verb : i \in 1..Len(twiml)}

\* the handler invocation that has just answered is one of route for sid c
Answered(route, c) ==
    lastResp.pc = "done" /\ lastResp.route = route /\ lastResp.callSid = c

\* this step delivers a callback (runs a handler's first segment)
Delivers == delivered' = delivered + 1

\* the handler invocation a delivering step has started: answered at once, or
\* suspended in a slot
Started ==
    IF lastResp' # Idle THEN lastResp'
    ELSE reqs'[CHOOSE r \in Slots : reqs'[r] # reqs[r]]

\* this step resumes the handler in slot r, which was suspended at pc
Resumes(r, route, pc) ==
    reqs[r].route = route /\ reqs[r].pc = pc /\ reqs'[r] # reqs[r]

\* the handler invocation of slot r after the step that resumed it
Resumed(r) == IF reqs'[r] = Idle THEN lastResp' ELSE reqs'[r]

(* ------------------------------- claims -------------------------------- *)

\* C1: a session's phase only moves forward along introduction -> question1
\* -> question2 -> qna -> ended, whatever callbacks are delivered for its
\* call sid and in whatever order: no step takes the phase to an earlier one.
C1_PhaseOnlyForward ==
    [][\A c \in CallIds : Rank(SessionPhase(c)') >= Rank(SessionPhase(c))]_vars

\* C2: a session's history is append-only: no step shortens it, and every
\* entry keeps its index, role and content.
C2_HistoryAppendOnly ==
    [][\A c \in CallIds :
          objects[c].phase # "none" =>
              IsPrefix(objects[c].history, objects'[c].history)]_vars

\* C2 witness: a session has been appended to by two handler segments
C2_Witness ==
    \E c \in CallIds : Len(objects[c].history) >= 3

\* C3: a /process-qna callback with the end signal (Digits = '#') or without
\* a recording, for a sid that has a session, is answered with the closing
\* remark and hangup, and the store no longer holds the session.
C3_EndSignalEnds ==
    \A c \in CallIds :
        ( /\ Answered("/process-qna", c)
          /\ lastResp.status # "404"
          /\ EndSignal(lastResp.RecordingUrl, lastResp.Digits) )
        => /\ lastResp.status = "200"
           /\ lastResp.twiml = <<Say(Goodbye), Hangup>>
           /\ c \notin interviews

\* C3 witness: a session in qna has just been ended by an end signal
C3_Witness ==
    \E c \in CallIds :
        /\ Answered("/process-qna", c)
        /\ lastResp.status = "200"
        /\ EndSignal(lastResp.RecordingUrl, lastResp.Digits)
        /\ objects[c].phase = "qna"
        /\ c \notin interviews

C5_UnknownCallId ==
    [][( Delivers /\ Started.callSid \notin interviews )
        => /\ Started.route \in CallbackRoutes
           /\ lastResp' = Started
           /\ lastResp'.status = "404"
           /\ lastResp'.twiml = <<>>
           /\ interviews' = interviews
           /\ objects' = objects
           /\ reqs' = reqs
      ]_vars

\* C5 witness: a callback for an unknown sid has just been refused while the
\* store holds another session with a history
C5_Witness ==
    \E c \in CallIds :
        /\ lastResp.pc = "done"
        /\ lastResp.status = "404"
        /\ lastResp.callSid \notin interviews
        /\ c \in interviews
        /\ Len(objects[c].history) >= 1

\* the phase a handler moves its session to, and the record action and
\* maximal length it answers with
NextPhase(route) ==
    CASE route = "/process-intro"   -> "question1"
      [] route = "/process-answer1" -> "question2"
      [] route = "/process-answer2" -> "qna"

NextAction(route) ==
    CASE route = "/process-intro"   -> "/process-answer1"
      [] route = "/process-answer1" -> "/process-answer2"
      [] route = "/process-answer2" -> "/process-qna"

Instruction(route) ==
    CASE route = "/process-intro"   -> AskFirst
      [] route = "/process-answer1" -> AskSecond

\* C6: in /process-intro, /process-answer1 and /process-answer2 a failed
\* retrieval or transcription appends no user entry, and the transition
\* goes on: the handler has moved the phase to the next one when it started,
\* it leaves the session in the store, and it answers with the next prompt
\* followed by a record directive (for the first two once the generation
\* of the question has returned), having appended no user entry.
C6_TranscriptionFailureTolerated ==
    [][\A r \in Slots :
        LET c == reqs[r].callSid IN
        /\ ( Delivers /\ Started.callSid \in interviews
               /\ Started.route \in CallbackRoutes \ {"/process-qna"} )
           => objects'[Started.callSid].phase = NextPhase(Started.route)
        /\ \A route \in {"/process-intro", "/process-answer1"} :
            /\ ( Resumes(r, route, "transcribe")
                 /\ Resumed(r).error = TranscriptionFailed )
               => /\ objects' = objects
                  /\ interviews' = interviews
                  /\ reqs'[r].pc = "generate"
                  /\ reqs'[r].appended = <<>>
            /\ ( Resumes(r, route, "generate")
                 /\ Resumed(r).error = TranscriptionFailed )
               => /\ objects'[c].history =
                       Append(objects[c].history,
                              AssistantEntry(Completion(Instruction(route))))
                  /\ objects'[c].phase = objects[c].phase
                  /\ interviews' = interviews
                  /\ lastResp'.status = "200"
                  /\ lastResp'.appended =
                       <<AssistantEntry(Completion(Instruction(route)))>>
                  /\ lastResp'.twiml =
                       <<Say(Completion(Instruction(route))), Play,
                         Record(NextAction(route), 120)>>
        /\ ( Resumes(r, "/process-answer2", "transcribe")
             /\ Resumed(r).error = TranscriptionFailed )
           => /\ objects' = objects
              /\ interviews' = interviews
              /\ lastResp'.status = "200"
              /\ lastResp'.appended = <<>>
              /\ lastResp'.twiml =
                   <<Say(QnaPrompt), Play, Record("/process-qna", 60)>>
      ]_vars

\* C6 witness: /process-answer1 has just answered with the second question
\* although its transcription failed; the session is in the store
C6_Witness ==
    \E c \in CallIds :
        /\ Answered("/process-answer1", c)
        /\ lastResp.error = TranscriptionFailed
        /\ lastResp.status = "200"
        /\ c \in interviews
        /\ objects[c].phase = "question2"
        /\ objects[c].history =
             <<AssistantEntry(Completion(AskSecond))>>

\* C7: in /process-qna a failed transcription of the candidate's question is
\* taken as no user input and the interview goes on: nothing is appended,
\* the call is not hung up, the session is not deleted and its phase stays.
C7_QnaTranscriptionFailureProceeds ==
    [][\A r \in Slots :
        ( Resumes(r, "/process-qna", "transcribe")
          /\ Resumed(r).error = TranscriptionFailed )
        => /\ objects' = objects
           /\ interviews' = interviews
           /\ "Hangup" \notin Verbs(Resumed(r).twiml)
      ]_vars

\* C8: in /process-intro and /process-answer1 a failed generation is
\* answered with the apology line and hangup and the session is deleted, so
\* that it is not left in the store in the advanced phase without the
\* assistant entry.
C8_GenerationFailureEndsCall ==
    [][\A r \in Slots :
        \A route \in {"/process-intro", "/process-answer1"} :
            ( Resumes(r, route, "generate")
              /\ Resumed(r).error = GenerationFailed )
            => /\ lastResp'.status = "200"
               /\ lastResp'.twiml = <<Say(Apology), Hangup>>
               /\ reqs[r].callSid \notin interviews'
      ]_vars

ScenarioHolds(n) ==
    \A c \in CallIds :
        /\ Answered("/process-intro", c)
           => /\ lastResp.status = "200"
              /\ c \in interviews
              /\ objects[c].phase = "question1"
              /\ Len(objects[c].history) = 2
        /\ Answered("/process-answer2", c)
           => /\ lastResp.status = "200"
              /\ c \in interviews
              /\ objects[c].phase = "qna"
              /\ Len(objects[c].history) = n
        /\ ( Answered("/process-qna", c)
             /\ EndSignal(lastResp.RecordingUrl, lastResp.Digits) )
           => /\ c \notin interviews
              /\ "Hangup" \in Verbs(lastResp.twiml)

C11_InvalidCandidatesRejected ==
    [][( makeCall.pc = "idle" /\ makeCall'.pc # "idle" )
        => LET body == IF makeCall'.pc = "placing"
                       THEN makeCall'.candidates
                       ELSE lastResp'.candidates
           IN ( body.kind # "array" \/ body.items = <<>> )
              => /\ makeCall'.pc = "done"
                 /\ lastResp'.route = "/make-call"
                 /\ lastResp'.status = "400"
                 /\ lastResp'.results = <<>>
                 /\ interviews' = interviews
                 /\ objects' = objects
                 /\ placed' = placed
      ]_vars

\* C11 witness: a request with an empty candidates list has just been refused
\* and the store is empty
C11_Witness ==
    /\ lastResp.route = "/make-call"
    /\ lastResp.status = "400"
    /\ lastResp.candidates.kind = "array"
    /\ lastResp.candidates.items = <<>>
    /\ interviews = {}
    /\ placed = 0

\* C12: for a non-empty candidates list every pass of the loop appends exactly
\* one result, for the candidate at the head of the rest of the list, marked
\* success exactly when the provider placed the call, and goes on to the
\* next candidate whatever the outcome; a placed call stores a new session
\* under its sid (phase introduction, empty history, the request's jobRole
\* and jobDescription, the candidate's phone), a failed one leaves the store
\* alone; the response carries one result per candidate in list order, and
\* the sids of its successes are exactly the sids handed out.
C12_OneResultPerCandidate ==
    [][( makeCall.pc = "placing" /\ makeCall' # makeCall )
        => LET candidate == Head(makeCall.todo)
               finished == makeCall'.pc = "done"
               results == IF finished THEN lastResp'.results
                                      ELSE makeCall'.results
               result == results[Len(results)]
               succeeded == placed' = placed + 1
               sid == CallSids[placed']
               list == lastResp'.candidates.items
           IN /\ results = Append(makeCall.results, result)
              /\ result.phone = candidate.phone
              /\ result.success <=> succeeded
              /\ succeeded
                 => /\ result.callSid = sid
                    /\ sid \notin interviews
                    /\ interviews' = interviews \cup {sid}
                    /\ \A c \in CallIds \ {sid} : objects'[c] = objects[c]
                    /\ objects'[sid].phase = "introduction"
                    /\ objects'[sid].history = <<>>
                    /\ objects'[sid].jobRole = makeCall.jobRole
                    /\ objects'[sid].jobDescription = makeCall.jobDescription
                    /\ objects'[sid].candidatePhone = candidate.phone
              /\ ~succeeded
                 => /\ interviews' = interviews
                    /\ objects' = objects
                    /\ placed' = placed
              /\ finished <=> Len(makeCall.todo) = 1
              /\ ~finished => makeCall'.todo = Tail(makeCall.todo)
              /\ finished
                 => /\ lastResp'.status = "200"
                    /\ Len(results) = Len(list)
                    /\ \A i \in 1..Len(list) : results[i].phone = list[i].phone
                    /\ {results[i].callSid :
                           i \in {j \in 1..Len(results) : results[j].success}}
                         = {CallSids[i] : i \in 1..placed'}
      ]_vars

\* C12 witness: a request for two candidates has just been answered; the
\* first placement failed, the second succeeded and its session is stored
C12_Witness ==
    /\ lastResp.route = "/make-call"
    /\ lastResp.status = "200"
    /\ Len(lastResp.results) = 2
    /\ ~lastResp.results[1].success
    /\ lastResp.results[2].success
    /\ lastResp.results[2].callSid \in interviews
    /\ objects[lastResp.results[2].callSid].candidatePhone = Phones[2]

(* --------------------- backend/interview.js claims --------------------- *)

\* C13: generateFinalScore never throws; when the chat-completion call
\* rejects or its reply is no JSON it returns the record with technicalScore
\* 0, communicationScore 0 and completionStatus "error", and when the reply
\* is JSON it returns the record the reply spells.
C13_ScoreNeverRaises ==
    /\ scoring.pc \in {"idle", "completion", "returned"}
    /\ scoring.pc = "returned"
       => IF scoring.outcome.rejected \/ ~scoring.outcome.content.json
          THEN /\ scoring.returned.technicalScore = 0
               /\ scoring.returned.communicationScore = 0
               /\ scoring.returned.completionStatus = "error"
          ELSE scoring.returned = scoring.outcome.content.spells

\* C13 witness: the provider answered a history of two entries with text that
\* is no JSON, and the call returned the record tagged "error"
C13_Witness ==
    /\ scoring.pc = "returned"
    /\ ~scoring.outcome.rejected
    /\ ~scoring.outcome.content.json
    /\ scoring.returned.completionStatus = "error"
    /\ Len(scoring.messages) = 3

\* an invocation has returned or thrown
Finished(inv) == inv.pc \in {"returned", "thrown"}

\* C14: an invocation of transcribeRecording makes at most `retries`
\* downloads (none when retries = 0), makes none after one has succeeded,
\* waits only after a failed download that another one follows (so once per
\* download but the last), throws the rejection of the last download when
\* all have failed, and starts no write and no transcription without a
\* downloaded response; with retries = 0 it throws and writes nothing.
C14_BoundedRetries ==
    \A t \in Invocations :
        LET inv == transcriptions[t] IN
        /\ inv.attempts <= inv.retries
        /\ inv.response => inv.pc \in {"write", "transcribe", "returned", "thrown"}
        /\ inv.pc = "delay"
           => /\ inv.attempts < inv.retries
              /\ inv.delays = inv.attempts
              /\ ~inv.response
        /\ ( inv.pc # "delay" /\ inv.attempts >= 1 )
           => inv.delays = inv.attempts - 1
        /\ inv.attempts = 0 => inv.delays = 0
        /\ ( Finished(inv) /\ ~inv.response /\ inv.attempts >= 1 )
           => /\ inv.pc = "thrown"
              /\ inv.attempts = inv.retries
              /\ inv.error = FetchError(inv.retries)
        /\ ( inv.written \/ inv.providerCalls > 0 \/ inv.tempFilePath # NoFile )
           => inv.response
        /\ ( inv.pc # "idle" /\ inv.retries = 0 )
           => /\ inv.pc = "thrown"
              /\ ~inv.written

\* C14 witness: an invocation with retries = 2 has thrown the rejection of its
\* second download, after one wait
C14_Witness ==
    \E t \in Invocations :
        /\ transcriptions[t].pc = "thrown"
        /\ transcriptions[t].retries = 2
        /\ transcriptions[t].attempts = 2
        /\ transcriptions[t].delays = 1
        /\ transcriptions[t].error = FetchError(2)

\* C15: once every invocation of transcribeRecording for a call sid has
\* returned or thrown and the unlinks issued for its files have been carried
\* out, the directory holds no file named after that sid.
C15_TempFilesRemoved ==
    \A c \in CallIds :
        ( /\ \E t \in Invocations :
                transcriptions[t].callSid = c /\ Finished(transcriptions[t])
          /\ \A t \in Invocations :
                transcriptions[t].callSid = c => Finished(transcriptions[t])
          /\ \A f \in unlinks : f.callSid # c )
        => \A f \in tempDir.files : f.callSid # c

\* C15 witness: an invocation wrote its file and threw because the write
\* failed, another for the same sid wrote its file and returned, and the
\* directory is empty with no unlink left
C15_Witness ==
    \E t, u \in Invocations :
        /\ transcriptions[t].pc = "thrown"
        /\ transcriptions[t].error = WriteError
        /\ transcriptions[u].pc = "returned"
        /\ transcriptions[u].callSid = transcriptions[t].callSid
        /\ transcriptions[u].tempFilePath # transcriptions[t].tempFilePath
        /\ unlinks = {}
        /\ tempDir.files = {}

\* C16: an invocation of transcribeRecording calls the speech-to-text
\* provider at most once, and an invocation that has thrown after calling it
\* has thrown the provider's error.
C16_NoTranscriptionRetry ==
    \A t \in Invocations :
        /\ transcriptions[t].providerCalls <= 1
        /\ ( transcriptions[t].pc = "thrown"
             /\ transcriptions[t].providerCalls = 1 )
           => transcriptions[t].error = ProviderError

\* C16 witness: the provider was called once and failed, and the invocation
\* has thrown its error; the other invocation's call of the provider succeeded
C16_Witness ==
    \E t, u \in Invocations :
        /\ transcriptions[t].pc = "thrown"
        /\ transcriptions[t].providerCalls = 1
        /\ transcriptions[t].error = ProviderError
        /\ transcriptions[u].pc = "returned"
        /\ transcriptions[u].providerCalls = 1

(* ------------------ prompts, ordering and independence ----------------- *)

\* this step issues the generation request of the handler in slot r
Generates(r) == reqs[r].pc = "transcribe" /\ reqs'[r].pc = "generate"

\* C17: every generation request a handler issues carries the persona
\* message of the session's jobRole and jobDescription, then the session's
\* history as it stands at that moment, entry by entry, then the instruction
\* turn.
C17_PromptCarriesHistory ==
    [][\A r \in Slots :
        Generates(r)
        => LET c == reqs[r].callSid
               sent == reqs'[r].messages
               history == objects'[c].history
           IN /\ Len(sent) = Len(history) + 2
              /\ sent[1].role = "system"
              /\ sent[1].content = [role |-> objects'[c].jobRole,
                                    jobDescription |-> objects'[c].jobDescription]
              /\ \A i \in 1..Len(history) : sent[i + 1] = history[i]
              /\ sent[Len(sent)].role = "user"
      ]_vars

\* C18: a callback for a sid is not handled while a handler delivered earlier
\* for the same sid is still suspended: no delivering step finds the session
\* of a sid that a suspended handler is working on.
C18_SameCallSerialized ==
    [][\A r \in Slots :
        ( Delivers /\ reqs[r].pc # "idle" /\ Started.callSid \in interviews )
        => Started.callSid # reqs[r].callSid
      ]_vars

\* this step is a segment of a callback handler working for sid c: its first,
\* which finds the session, or a later one
HandlerStep(c) ==
    \/ Delivers /\ Started.callSid = c
    \/ \E r \in Slots : reqs[r].callSid = c /\ reqs'[r] # reqs[r]

\* a callback for sid d can be started now
CanStart(d) ==
    \E r \in Slots : ENABLED ProcessAnswer2Start(r, d, "rec")

\* C19: a segment of a handler working for one sid leaves the session object
\* and the store entry of every other sid as they are; and while a handler
\* is suspended for a sid, a callback for another sid can be started as soon
\* as a slot is free and no response is on its way out, and a handler
\* suspended for another sid can go on to its end.
C19_DifferentCallsIndependent ==
    /\ [][\A c \in CallIds :
            HandlerStep(c)
            => \A d \in CallIds \ {c} :
                  /\ objects'[d] = objects[d]
                  /\ (d \in interviews') <=> (d \in interviews)
         ]_vars
    /\ [](\A r \in Slots :
            ( reqs[r].pc # "idle" /\ lastResp = Idle )
            => /\ \A d \in interviews \ {reqs[r].callSid} :
                     (\E q \in Slots : reqs[q].pc = "idle") => CanStart(d)
               /\ \A q \in Slots \ {r} :
                     ( reqs[q].callSid # reqs[r].callSid
                       /\ reqs[q].route = "/process-answer2"
                       /\ reqs[q].pc = "transcribe" )
                     => ENABLED ProcessAnswer2Transcribed(q, TRUE))

\* C19 witness: a /process-answer2 callback for one sid has gone through its
\* transcription and has been answered while a handler for another sid is
\* suspended, and both sessions are in the store
C19_Witness ==
    \E r \in Slots :
        /\ reqs[r].pc = "generate"
        /\ lastResp.pc = "done"
        /\ lastResp.route = "/process-answer2"
        /\ lastResp.status = "200"
        /\ Len(lastResp.appended) = 1
        /\ lastResp.callSid # reqs[r].callSid
        /\ {lastResp.callSid, reqs[r].callSid} \subseteq interviews

\* C20: no step changes the jobRole or the jobDescription of a session once
\* /make-call has created it, and the persona message of every generation
\* request is built from the session's jobRole and jobDescription.
C20_RoleAndDescriptionFixed ==
    [][/\ \A c \in CallIds :
            objects[c].phase # "none"
            => /\ objects'[c].jobRole = objects[c].jobRole
               /\ objects'[c].jobDescription = objects[c].jobDescription
       /\ \A c \in CallIds :
            ( objects[c].phase = "none" /\ objects'[c].phase # "none" )
            => /\ objects'[c].jobRole = makeCall.jobRole
               /\ objects'[c].jobRole \in JobRoles
               /\ objects'[c].jobDescription = makeCall.jobDescription
               /\ objects'[c].jobDescription \in JobDescriptions
       /\ \A r \in Slots :
            Generates(r)
            => reqs'[r].messages[1] =
                  [role |-> "system",
                   content |-> [role |-> objects[reqs[r].callSid].jobRole,
                                jobDescription |->
                                    objects[reqs[r].callSid].jobDescription]]
      ]_vars

\* C20 witness: a session that has been through two transitions still has the
\* jobRole of its creation, and the request for its second question carries it
C20_Witness ==
    \E r \in Slots :
        /\ reqs[r].pc = "generate"
        /\ reqs[r].route = "/process-answer1"
        /\ objects[reqs[r].callSid].phase = "question2"
        /\ Len(objects[reqs[r].callSid].history) >= 2
        /\ objects[reqs[r].callSid].jobRole \in JobRoles
        /\ reqs[r].messages[1].content.role = objects[reqs[r].callSid].jobRole

(* ----------------------- directives and lifetime ----------------------- *)

\* the handler that serves the phase a route's handler moves the call to
RecordTarget(route) ==
    CASE route = "/voice"           -> "/process-intro"
      [] route = "/process-intro"   -> "/process-answer1"
      [] route = "/process-answer1" -> "/process-answer2"
      [] route = "/process-answer2" -> "/process-qna"
      [] route = "/process-qna"     -> "/process-qna"

\* C21: every directive list a callback handler sends starts with a say
\* and ends with a record or with a hangup; it holds one record or one
\* hangup, never both; its record names the handler of the phase its route
\* moves the call to, and stands right after a play that stands right after
\* a say; its hangup stands right after a say.
C21_DirectivesWellFormed ==
    ( lastResp.pc = "done" /\ lastResp.status = "200"
      /\ lastResp.route # "/make-call" )
    => LET twiml == lastResp.twiml
           n == Len(twiml)
           records == {i \in 1..n : twiml[i].verb = "Record"}
           hangups == {i \in 1..n : twiml[i].verb = "Hangup"}
       IN /\ n >= 2
          /\ twiml[1].verb = "Say"
          /\ twiml[n].verb \in {"Record", "Hangup"}
          /\ Cardinality(records) + Cardinality(hangups) = 1
          /\ twiml[n].verb = "Record"
             => /\ twiml[n].arg = RecordTarget(lastResp.route)
                /\ n >= 3
                /\ twiml[n - 1].verb = "Play"
                /\ twiml[n - 2].verb = "Say"
          /\ twiml[n].verb = "Hangup" => twiml[n - 1].verb = "Say"

\* C21 witness: /voice has just answered with its greeting, the tone and the
\* record directive for the introduction, for a call that has a session
C21_Witness ==
    /\ lastResp.pc = "done"
    /\ lastResp.route = "/voice"
    /\ lastResp.callSid \in interviews
    /\ Len(lastResp.twiml) = 3
    /\ lastResp.twiml[3].verb = "Record"
    /\ lastResp.twiml[3].arg = "/process-intro"

\* C22: no callback is left unanswered.  A handler invocation that has come
\* to its end sends nothing afterwards, so a callback is answered at all only
\* if its handler ends having sent a directive list or the not-found
\* signal: every handler invocation that has ended has sent one of the two,
\* whichever external calls failed.
C22_EveryCallbackAnswered ==
    ( lastResp.pc = "done" /\ lastResp.route \in CallbackRoutes )
    => \/ lastResp.status = "404"
       \/ lastResp.status = "200" /\ lastResp.twiml # <<>>

\* this step is a segment of a /process-qna handler working for sid c
QnaStep(c) ==
    \/ Delivers /\ Started.route = "/process-qna" /\ Started.callSid = c
    \/ \E r \in Slots :
          /\ reqs[r].route = "/process-qna"
          /\ reqs[r].callSid = c
          /\ reqs'[r] # reqs[r]

\* C23: a session leaves the store only in a step of a /process-qna handler
\* working for its sid; no other step (another route, another sid, /voice,
\* /make-call, the lapse of time) removes it, so a session for which no
\* /process-qna callback is delivered stays in the store for ever.
C23_OnlyQnaRemoves ==
    [][\A c \in CallIds :
        ( c \in interviews /\ c \notin interviews' ) => QnaStep(c)
      ]_vars

\* C23 witness: two callbacks have been delivered and answered, none of them
\* to /process-qna, and the session they were for is still in the store
C23_Witness ==
    \E c \in CallIds :
        /\ delivered = 2
        /\ c \in interviews
        /\ objects[c].phase = "question2"
        /\ Answered("/process-answer1", c)
        /\ lastResp.status = "200"

\* the session of sid c was created and has been deleted from the store
Destroyed(c) == c \notin interviews /\ objects[c].phase # "none"

\* C24: once the session of a sid has been deleted no step puts the sid back
\* into the store, be it the delivery of a callback for it or the resumption
\* of a handler that was suspended when it was deleted; and every callback
\* delivered for it from then on is answered 404 with no directive.
C24_NeverResurrected ==
    [][\A c \in CallIds :
        Destroyed(c)
        => /\ c \notin interviews'
           /\ ( Delivers /\ Started.callSid = c )
              => /\ lastResp' = Started
                 /\ lastResp'.status = "404"
                 /\ lastResp'.twiml = <<>>
      ]_vars

\* C24 witness: the session of a sid was deleted while a handler for it was
\* suspended, the handler is still in flight, and a later callback for the sid
\* has just been answered 404
C24_Witness ==
    \E c \in CallIds, r \in Slots :
        /\ Destroyed(c)
        /\ reqs[r].pc # "idle"
        /\ reqs[r].callSid = c
        /\ lastResp.pc = "done"
        /\ lastResp.callSid = c
        /\ lastResp.status = "404"

\* C25: once the session of a sid has been deleted no step changes the
\* session object (its history and its other fields), and a handler for
\* the sid that was suspended at the deletion and now comes to its end
\* answers without a record directive.
C25_NoMutationAfterDestroy ==
    [][\A c \in CallIds :
        Destroyed(c)
        => /\ objects'[c] = objects[c]
           /\ \A r \in Slots :
                ( reqs[r].callSid = c /\ reqs'[r] # reqs[r]
                  /\ lastResp' # Idle )
                => "Record" \notin Verbs(lastResp'.twiml)
      ]_vars

====
